---- MODULE Spec2Model ----
(***************************************************************************)
(* Model of the sandboxed filesystem server (src/mcp_server.py):           *)
(* SecurityConfig.is_path_allowed / check_file_size and the file tools     *)
(* read_file, write_file, create_file, delete_file, edit_file,             *)
(* list_directory, create_directory, move_file, search_in_files.           *)
(*                                                                         *)
(* Text is modelled at the level of tokens.  A file name is a sequence of  *)
(* tokens in which "." is always a token of its own (so "a.txt" is         *)
(* <<"a", ".", "txt">> and ".." is <<".", ".">>); a path is the tuple of   *)
(* its parts as pathlib keeps it, the anchor "/" being the first part of   *)
(* an absolute path.  File content is a sequence of characters; "CR" and   *)
(* "LF" are carriage return and line feed, "BAD" is a byte that is not     *)
(* valid UTF-8.  The host is POSIX (os.sep = "/", os.linesep = LF).        *)
(***************************************************************************)
EXTENDS Integers, Sequences, FiniteSets, TLC

VARIABLES
    fs,         \* the filesystem: canonical path -> node (the system of record)
    security,   \* the SecurityConfig singleton
    last,       \* the last tool call: its arguments and what it returned
    pre,        \* the filesystem as it was when the last tool call started
    steps,      \* number of tool calls made so far
    calls       \* the tool calls in progress, where calls are taken step by step

vars == <<fs, security, last, pre, steps, calls>>

----------------------------------------------------------------------------
(* Bounds of the model *)

MaxOps == 2         \* tool calls per behaviour of Spec
MaxLen == 3         \* longest file content / argument text that is enumerated
MaxDepth == 3       \* longest raw path (in parts) that is enumerated for evaluate
LinkFuel == 2       \* symlink hops followed before a walk takes them for a loop

----------------------------------------------------------------------------
(* Sequences of tokens *)

Front(s) == SubSeq(s, 1, Len(s) - 1)

Last(s) == s[Len(s)]

StartsWith(s, t) == Len(t) <= Len(s) /\ SubSeq(s, 1, Len(t)) = t

EndsWith(s, t) == Len(t) <= Len(s) /\ SubSeq(s, Len(s) - Len(t) + 1, Len(s)) = t

RECURSIVE SeqsUpTo(_, _)
SeqsUpTo(S, n) ==
    IF n = 0 THEN {<<>>}
    ELSE LET shorter == SeqsUpTo(S, n - 1)
         IN  shorter \cup {Append(s, x) : s \in shorter, x \in S}

----------------------------------------------------------------------------
(* Names and paths *)

SEP == "/"
SLASH == <<SEP>>                \* the anchor part of an absolute path
DOTDOT == <<".", ".">>

WS == <<SLASH, <<"ws">>>>       \* the canonical sandbox root
CWD == WS                       \* os.getcwd() of the server process

A_TXT == <<"a", ".", "txt">>
R_TXT == <<"R", ".", "TXT">>
B_EXE == <<"b", ".", "exe">>
K_KEY == <<"k", ".", "key">>
DOTGIT == <<".", "git">>

IsAbs(p) == Len(p) > 0 /\ p[1] = SLASH

Parent(p) == IF Len(p) > 1 THEN Front(p) ELSE p

\* PurePath.name
Name(p) == IF Len(p) > 1 THEN Last(p) ELSE <<>>

\* the largest index of "." in a name, 0 when there is none (str.rfind)
RFindDot(name) ==
    LET dots == {i \in 1..Len(name) : name[i] = "."}
    IN  IF dots = {} THEN 0 ELSE CHOOSE i \in dots : \A j \in dots : j <= i

\* PurePath.suffix: the part of the name from its last dot on, unless that
\* dot is the first or the last character of the name
Suffix(p) ==
    LET name == Name(p)
        i == RFindDot(name)
    IN  IF 1 < i /\ i < Len(name) THEN SubSeq(name, i, Len(name)) ELSE <<>>

LowerTok(t) ==
    CASE t = "TXT" -> "txt"
      [] t = "EXE" -> "exe"
      [] t = "KEY" -> "key"
      [] t = "R" -> "r"
      [] t = "X" -> "x"
      [] OTHER -> t

\* str.lower
Lower(s) == [i \in 1..Len(s) |-> LowerTok(s[i])]

\* str(PurePosixPath): the parts joined by os.sep after the anchor
RECURSIVE JoinParts(_)
JoinParts(names) ==
    IF names = <<>> THEN <<>>
    ELSE IF Len(names) = 1 THEN names[1]
    ELSE names[1] \o <<SEP>> \o JoinParts(Tail(names))

PathStr(p) == IF IsAbs(p) THEN <<SEP>> \o JoinParts(Tail(p)) ELSE JoinParts(p)

\* str.split(sep)
RECURSIVE SplitAcc(_, _, _)
SplitAcc(s, sep, cur) ==
    IF s = <<>> THEN <<cur>>
    ELSE IF Head(s) = sep THEN <<cur>> \o SplitAcc(Tail(s), sep, <<>>)
    ELSE SplitAcc(Tail(s), sep, Append(cur, Head(s)))

Split(s, sep) == SplitAcc(s, sep, <<>>)

\* PurePath.relative_to / is_relative_to: a comparison of parts, no filesystem access
IsRelativeTo(p, base) == StartsWith(p, base)

RelativeTo(p, base) == SubSeq(p, Len(base) + 1, Len(p))

----------------------------------------------------------------------------
(* The filesystem *)

File(data) == [kind |-> "file", data |-> data, target |-> <<>>]
Dir == [kind |-> "dir", data |-> <<>>, target |-> <<>>]
Link(target) == [kind |-> "link", data |-> <<>>, target |-> target]

ERR == <<>>     \* no path: the walk ran into a symlink loop

\* The path walk of the kernel (stat, open, mkdir): from the anchor (or the
\* working directory) part by part, ".." is the parent, the target of a
\* symlink replaces the symlink, a part that does not exist is kept.  After
\* too many symlinks the walk fails (ELOOP).
RECURSIVE LocateFrom(_, _, _, _)
LocateFrom(f, cur, rest, fuel) ==
    IF rest = <<>> THEN cur
    ELSE LET n == Head(rest)
             nxt == Append(cur, n)
         IN  IF n = DOTDOT THEN LocateFrom(f, Parent(cur), Tail(rest), fuel)
             ELSE IF nxt \in DOMAIN f /\ f[nxt].kind = "link"
                  THEN (IF fuel = 0 THEN ERR
                        ELSE LocateFrom(f, <<SLASH>>, Tail(f[nxt].target) \o Tail(rest), fuel - 1))
             ELSE LocateFrom(f, nxt, Tail(rest), fuel)

\* the node a path names, every symlink followed
Locate(f, p) ==
    IF p = ERR THEN ERR
    ELSE IF IsAbs(p) THEN LocateFrom(f, <<SLASH>>, Tail(p), LinkFuel)
    ELSE LocateFrom(f, CWD, p, LinkFuel)

\* the node a path names when its last part is not followed (unlink, rename)
NoFollow(f, p) ==
    IF Len(p) <= 1 \/ Locate(f, Parent(p)) = ERR THEN Locate(f, p)
    ELSE Append(Locate(f, Parent(p)), Last(p))

\* the kind of node a path names, "none" if nothing
Kind(f, p) ==
    LET q == Locate(f, p)
    IN  IF q = ERR \/ q \notin DOMAIN f THEN "none" ELSE f[q].kind

\* Path.exists, Path.is_file, Path.is_dir
PathExists(f, p) == Kind(f, p) # "none"
IsFile(f, p) == Kind(f, p) = "file"
IsDir(f, p) == Kind(f, p) = "dir"

\* os.path.normpath: ".." drops the part before it, no filesystem access
RECURSIVE NormPath(_, _)
NormPath(cur, rest) ==
    IF rest = <<>> THEN cur
    ELSE IF Head(rest) = DOTDOT THEN NormPath(Parent(cur), Tail(rest))
    ELSE NormPath(Append(cur, Head(rest)), Tail(rest))

\* Path.resolve() (os.path.realpath, strict = False): walks the parts from the
\* anchor (or from the working directory), ".." drops the last resolved part,
\* a symlink is replaced by the resolution of its target, and a part that does
\* not exist is kept as it is.  At a symlink loop realpath gives up: it joins
\* the rest of the path to the looping symlink as it is, symlinks not followed,
\* and normalizes the result; resolve() then raises only if stat of that path
\* fails with ELOOP.
RECURSIVE ResolveFrom(_, _, _, _)
ResolveFrom(f, cur, rest, fuel) ==
    IF rest = <<>> THEN cur
    ELSE LET n == Head(rest)
             nxt == Append(cur, n)
             unresolved == NormPath(nxt, Tail(rest))
         IN  IF n = DOTDOT THEN ResolveFrom(f, Parent(cur), Tail(rest), fuel)
             ELSE IF nxt \in DOMAIN f /\ f[nxt].kind = "link"
                  THEN (IF fuel = 0
                        THEN (IF Locate(f, unresolved) = ERR THEN ERR ELSE unresolved)
                        ELSE ResolveFrom(f, <<SLASH>>, Tail(f[nxt].target) \o Tail(rest), fuel - 1))
             ELSE ResolveFrom(f, nxt, Tail(rest), fuel)

Resolve(f, p) ==
    IF IsAbs(p) THEN ResolveFrom(f, <<SLASH>>, Tail(p), LinkFuel)
    ELSE ResolveFrom(f, CWD, p, LinkFuel)

----------------------------------------------------------------------------
(* SecurityConfig *)

\* the default blocked_patterns, in list order
DefaultBlockedPatterns ==
    << <<".", "git">>, <<".", "env">>, <<".", "ssh">>, <<"node_modules">>,
       <<"__pycache__">>, <<".", "venv">>, <<"venv">>,
       <<"*", ".", "key">>, <<"*", ".", "pem">>, <<"*", ".", "p12">>,
       <<"id_rsa">>, <<"id_ed25519">> >>

\* the default allowed_extensions
DefaultAllowedExtensions ==
    << <<".", "py">>, <<".", "js">>, <<".", "ts">>, <<".", "jsx">>, <<".", "tsx">>,
       <<".", "java">>, <<".", "c">>, <<".", "cpp">>, <<".", "h">>, <<".", "hpp">>,
       <<".", "go">>, <<".", "rs">>, <<".", "rb">>, <<".", "php">>,
       <<".", "html">>, <<".", "css">>, <<".", "scss">>, <<".", "json">>,
       <<".", "md">>, <<".", "txt">>, <<".", "yaml">>, <<".", "yml">>,
       <<".", "toml">>, <<".", "ini">>, <<".", "cfg">>, <<".", "xml">> >>

\* max_file_size: 10 * 1024 * 1024 bytes in the source, scaled to the
\* content lengths the model enumerates
max_file_size == 3

InList(x, list) == \E i \in 1..Len(list) : list[i] = x

\* the spellings of allowed_root a configuration document can hold for the
\* directory /ws: the canonical one, one through "..", one through a symlink
RootSpellings ==
    { WS,
      <<SLASH, <<"ws">>, <<"d">>, DOTDOT>>,
      <<SLASH, <<"lnk">>>> }

SecurityConfig(root) ==
    [ allowed_root |-> root,
      blocked_patterns |-> DefaultBlockedPatterns,
      allowed_extensions |-> DefaultAllowedExtensions,
      max_file_size |-> max_file_size ]

\* None, and every other value Python takes for false where a path is expected
None == <<>>

\* A value of the configuration document (JSON).  A string is the sequence of
\* its tokens (a path for allowed_root), a list the sequence of its items.
JMissing == [t |-> "missing", v |-> <<>>]       \* the key is not in the object
JNull == [t |-> "null", v |-> <<>>]
JNum == [t |-> "num", v |-> <<>>]
JStr(str) == [t |-> "str", v |-> str]
JList(items) == [t |-> "list", v |-> items]

\* what is at config_path: no file, a file that is not JSON, a JSON array, or
\* a JSON object with the three recognized keys
Document(kind, allowed_root, additional_blocked, additional_extensions) ==
    [kind |-> kind, allowed_root |-> allowed_root,
     additional_blocked |-> additional_blocked,
     additional_extensions |-> additional_extensions]

NoDocument == Document("absent", JMissing, JMissing, JMissing)

\* dict.get(key) and dict.get(key, []) as the argument of list.extend:
\* iterating a string yields its characters, iterating None or a number raises
Iterable(value) == value.t \in {"missing", "list", "str"}

Items(value) ==
    IF value.t = "list" THEN value.v
    ELSE IF value.t = "str" THEN [i \in 1..Len(value.v) |-> <<value.v[i]>>]
    ELSE <<>>

\* bool(value) for the values the model gives allowed_root
Truthy(value) == value.t \in {"str", "list"} /\ value.v # <<>>

\* SecurityConfig.load_config, applied to the object __init__ has filled with
\* the defaults (allowed_root = None).  The assignments made before an
\* exception is raised inside the try block stay.
load_config(sec, doc) ==
    LET root == IF Truthy(doc.allowed_root) THEN doc.allowed_root.v ELSE None
        s1 == [sec EXCEPT !.allowed_root = root]
        s2 == [s1 EXCEPT !.blocked_patterns = @ \o Items(doc.additional_blocked)]
        s3 == [s2 EXCEPT !.allowed_extensions = @ \o Items(doc.additional_extensions)]
        tried ==
            IF doc.kind = "absent" THEN [sec |-> sec, out |-> "NoConfig"]
            ELSE IF doc.kind \in {"invalid", "array"} THEN [sec |-> sec, out |-> "LoadFailed"]
            ELSE IF ~Iterable(doc.additional_blocked) THEN [sec |-> s1, out |-> "LoadFailed"]
            ELSE IF ~Iterable(doc.additional_extensions) THEN [sec |-> s2, out |-> "LoadFailed"]
            ELSE [sec |-> s3, out |-> "Loaded"]
    IN  [tried EXCEPT !.sec.allowed_root = IF @ = None THEN CWD ELSE @]

Decision(allowed, reason, detail) ==
    [allowed |-> allowed, reason |-> reason, detail |-> detail]

\* one pattern of the blocked-pattern loop against str(abs_path)
PatternMatches(pattern, path_str) ==
    IF StartsWith(pattern, <<"*", ".">>)
    THEN EndsWith(path_str, Tail(pattern))
    ELSE InList(pattern, Split(path_str, SEP))

\* the index of the first blocked pattern that matches, 0 when none does
FirstBlocked(patterns, path_str) ==
    LET hits == {i \in 1..Len(patterns) : PatternMatches(patterns[i], path_str)}
    IN  IF hits = {} THEN 0 ELSE CHOOSE i \in hits : \A j \in hits : i <= j

\* the checks of is_path_allowed after resolution, with the containment test
\* and the condition of the extension step as parameters
PolicySteps(f, sec, abs_path, allowed_root, contained, ext_applies) ==
    LET path_str == PathStr(abs_path)
        hit == FirstBlocked(sec.blocked_patterns, path_str)
        ext == Lower(Suffix(abs_path))
    IN  IF abs_path = ERR \/ allowed_root = ERR
        THEN Decision(FALSE, "Path validation error", <<>>)
        ELSE IF ~contained
        THEN Decision(FALSE, "Path outside allowed directory", <<>>)
        ELSE IF hit # 0
        THEN (IF StartsWith(sec.blocked_patterns[hit], <<"*", ".">>)
              THEN Decision(FALSE, "Blocked file extension", sec.blocked_patterns[hit])
              ELSE Decision(FALSE, "Blocked pattern", sec.blocked_patterns[hit]))
        ELSE IF ext_applies /\ ext # <<>> /\ ~InList(ext, sec.allowed_extensions)
        THEN Decision(FALSE, "File extension not allowed", ext)
        ELSE Decision(TRUE, "OK", <<>>)

\* variant: the extension step is applied to paths that do not exist only
is_path_allowed_new_only(f, sec, path) ==
    LET abs_path == Resolve(f, path)
        allowed_root == Resolve(f, sec.allowed_root)
    IN  PolicySteps(f, sec, abs_path, allowed_root,
                    IsRelativeTo(abs_path, allowed_root), ~PathExists(f, abs_path))

\* SecurityConfig.is_path_allowed
is_path_allowed(f, sec, path) ==
    LET abs_path == Resolve(f, path)
        allowed_root == Resolve(f, sec.allowed_root)
    IN  PolicySteps(f, sec, abs_path, allowed_root,
                    IsRelativeTo(abs_path, allowed_root),
                    IsFile(f, abs_path) \/ ~PathExists(f, abs_path))

\* bytes one character takes in UTF-8
Utf8Len(ch) == IF ch = "E_ACUTE" THEN 2 ELSE 1

\* os.path.getsize
RECURSIVE GetSize(_)
GetSize(data) == IF data = <<>> THEN 0 ELSE Utf8Len(Head(data)) + GetSize(Tail(data))

\* variant: a file of exactly max_file_size bytes is rejected
check_file_size_below(f, sec, p) == GetSize(f[Locate(f, p)].data) < sec.max_file_size

\* SecurityConfig.check_file_size on an existing regular file
check_file_size(f, sec, p) == GetSize(f[Locate(f, p)].data) <= sec.max_file_size

----------------------------------------------------------------------------
(* Text files: open(..., 'r' / 'w', encoding='utf-8') with the default newline *)

CR == "CR"
LF == "LF"
BAD == "BAD"
LINESEP == <<LF>>       \* os.linesep

\* the UTF-8 decoder raises UnicodeDecodeError on an invalid byte
Decodable(data) == \A i \in 1..Len(data) : data[i] # BAD

\* reading in text mode: universal newlines turn CR LF and a lone CR into LF
RECURSIVE DecodeText(_)
DecodeText(data) ==
    IF data = <<>> THEN <<>>
    ELSE IF Head(data) = CR
         THEN <<LF>> \o DecodeText(IF Len(data) > 1 /\ data[2] = LF
                                   THEN Tail(Tail(data)) ELSE Tail(data))
    ELSE <<Head(data)>> \o DecodeText(Tail(data))

\* writing in text mode: every LF is written as os.linesep
RECURSIVE EncodeText(_)
EncodeText(content) ==
    IF content = <<>> THEN <<>>
    ELSE (IF Head(content) = LF THEN LINESEP ELSE <<Head(content)>>)
         \o EncodeText(Tail(content))

----------------------------------------------------------------------------
(* str.find, the in operator, str.count, str.replace *)

\* the least index >= start at which sub occurs in s, 0 when there is none
PyFind(s, sub, start) ==
    LET at == {i \in start..(Len(s) - Len(sub) + 1) : SubSeq(s, i, i + Len(sub) - 1) = sub}
    IN  IF at = {} THEN 0 ELSE CHOOSE i \in at : \A j \in at : i <= j

\* sub in s
Contains(s, sub) == PyFind(s, sub, 1) # 0

\* s.count(sub): occurrences that do not overlap, scanning from the left;
\* the empty string occurs len(s) + 1 times
RECURSIVE CountFrom(_, _, _)
CountFrom(s, sub, start) ==
    LET i == PyFind(s, sub, start)
    IN  IF i = 0 THEN 0 ELSE 1 + CountFrom(s, sub, i + Len(sub))

PyCount(s, sub) == IF sub = <<>> THEN Len(s) + 1 ELSE CountFrom(s, sub, 1)

\* s.replace("", new, n): new goes before each character and at the end
RECURSIVE ReplaceEmpty(_, _, _)
ReplaceEmpty(s, new, n) ==
    IF n = 0 THEN s
    ELSE IF s = <<>> THEN new
    ELSE new \o <<Head(s)>> \o ReplaceEmpty(Tail(s), new, n - 1)

\* s.replace(old, new, n) for a non-empty old: the first n occurrences that do
\* not overlap, from the left (n = -1: all of them)
RECURSIVE ReplaceFrom(_, _, _, _)
ReplaceFrom(s, old, new, n) ==
    LET i == PyFind(s, old, 1)
    IN  IF n = 0 \/ i = 0 THEN s
        ELSE SubSeq(s, 1, i - 1) \o new
             \o ReplaceFrom(SubSeq(s, i + Len(old), Len(s)), old, new, n - 1)

PyReplace(s, old, new, n) ==
    IF old = <<>> THEN ReplaceEmpty(s, new, n) ELSE ReplaceFrom(s, old, new, n)

----------------------------------------------------------------------------
(* Filesystem calls *)

SysResult(ok, f) == [ok |-> ok, fs |-> f]

\* mkdir -p on a located path
RECURSIVE MkdirAt(_, _, _)
MkdirAt(f, p, exist_ok) ==
    IF p \in DOMAIN f
    THEN SysResult(exist_ok /\ IsDir(f, p), f)                  \* FileExistsError
    ELSE IF Parent(p) \notin DOMAIN f
    THEN LET up == MkdirAt(f, Parent(p), TRUE)                  \* FileNotFoundError
         IN  IF up.ok THEN MkdirAt(up.fs, p, exist_ok) ELSE up
    ELSE IF ~IsDir(f, Parent(p))
    THEN SysResult(FALSE, f)                                    \* NotADirectoryError
    ELSE SysResult(TRUE, [q \in DOMAIN f \cup {p} |-> IF q = p THEN Dir ELSE f[q]])

\* Path.mkdir(parents=True, exist_ok=exist_ok)
Mkdir(f, p, exist_ok) ==
    IF Locate(f, p) = ERR THEN SysResult(FALSE, f) ELSE MkdirAt(f, Locate(f, p), exist_ok)

\* open(p, 'w', encoding='utf-8') followed by write(content)
OpenWrite(f, p, content) ==
    LET at == Locate(f, p)
    IN  IF at = ERR THEN SysResult(FALSE, f)                    \* ELOOP
        ELSE IF at \in DOMAIN f
        THEN (IF f[at].kind = "file"
              THEN SysResult(TRUE, [f EXCEPT ![at] = File(EncodeText(content))])
              ELSE SysResult(FALSE, f))                         \* IsADirectoryError
        ELSE IF ~IsDir(f, Parent(at))
        THEN SysResult(FALSE, f)                                \* FileNotFoundError
        ELSE SysResult(TRUE, [q \in DOMAIN f \cup {at} |->
                                IF q = at THEN File(EncodeText(content)) ELSE f[q]])

\* Path.unlink: removes the name, a symlink itself and not its target
Unlink(f, p) == [q \in DOMAIN f \ {NoFollow(f, p)} |-> f[q]]

\* Path.rename(dst) (rename(2)) for a destination that does not exist: the
\* source and everything below it moves; fails when the destination's parent
\* is not a directory or the destination lies below the source
Rename(f, source, destination) ==
    LET src == NoFollow(f, source)
        dst == NoFollow(f, destination)
    IN  IF src = ERR \/ dst = ERR \/ ~IsDir(f, Parent(dst)) \/ StartsWith(dst, src)
        THEN SysResult(FALSE, f)
        ELSE LET moved == {q \in DOMAIN f : StartsWith(q, src)}
                 to(q) == dst \o SubSeq(q, Len(src) + 1, Len(q))
                 from(q) == src \o SubSeq(q, Len(dst) + 1, Len(q))
                 dom == (DOMAIN f \ moved) \cup {to(q) : q \in moved}
             IN  SysResult(TRUE, [q \in dom |-> IF StartsWith(q, dst) THEN f[from(q)] ELSE f[q]])

----------------------------------------------------------------------------
(* The tools.  Each is a function of the filesystem, the configuration and  *)
(* its arguments to the filesystem it leaves and the outcome it returns.    *)

Ret(f, out) ==
    [fs |-> f, out |-> out, reason |-> "", detail |-> <<>>, count |-> 0,
     text |-> <<>>, entries |-> <<>>, omitted |-> 0]

Deny(f, out, d) == [Ret(f, out) EXCEPT !.reason = d.reason, !.detail = d.detail]

\* read_file
read_file(f, sec, path) ==
    LET d == is_path_allowed(f, sec, path)
        abs_path == Resolve(f, path)
    IN  IF ~d.allowed THEN Deny(f, "Denied", d)
        ELSE IF ~PathExists(f, abs_path) THEN Ret(f, "NotFound")
        ELSE IF ~IsFile(f, abs_path) THEN Ret(f, "NotAFile")
        ELSE IF ~check_file_size(f, sec, abs_path) THEN Ret(f, "TooLarge")
        ELSE IF ~Decodable(f[Locate(f, abs_path)].data) THEN Ret(f, "DecodeError")
        ELSE [Ret(f, "Content") EXCEPT !.text = DecodeText(f[Locate(f, abs_path)].data)]

\* write_file
write_file(f, sec, path, content) ==
    LET d == is_path_allowed(f, sec, path)
        abs_path == Resolve(f, path)
        made == Mkdir(f, Parent(abs_path), TRUE)
        existed == PathExists(made.fs, abs_path)
        written == OpenWrite(made.fs, abs_path, content)
    IN  IF ~d.allowed THEN Deny(f, "Denied", d)
        ELSE IF ~made.ok THEN Ret(made.fs, "OperationFailed")
        ELSE IF ~written.ok THEN Ret(written.fs, "OperationFailed")
        ELSE IF ~IsRelativeTo(abs_path, sec.allowed_root)
        THEN Ret(written.fs, "OperationFailed")                 \* relative_to raises
        ELSE Ret(written.fs, IF existed THEN "Updated" ELSE "Created")

\* variant: the existence check is missing
create_file_overwrite(f, sec, path, content) ==
    LET d == is_path_allowed(f, sec, path)
        abs_path == Resolve(f, path)
        made == Mkdir(f, Parent(abs_path), TRUE)
        written == OpenWrite(made.fs, abs_path, content)
    IN  IF ~d.allowed THEN Deny(f, "Denied", d)
        ELSE IF ~made.ok THEN Ret(made.fs, "OperationFailed")
        ELSE IF ~written.ok THEN Ret(written.fs, "OperationFailed")
        ELSE IF ~IsRelativeTo(abs_path, sec.allowed_root)
        THEN Ret(written.fs, "OperationFailed")
        ELSE Ret(written.fs, "Created")

\* create_file
create_file(f, sec, path, content) ==
    LET d == is_path_allowed(f, sec, path)
        abs_path == Resolve(f, path)
        made == Mkdir(f, Parent(abs_path), TRUE)
        written == OpenWrite(made.fs, abs_path, content)
    IN  IF ~d.allowed THEN Deny(f, "Denied", d)
        ELSE IF PathExists(f, abs_path) THEN Ret(f, "AlreadyExists")
        ELSE IF ~made.ok THEN Ret(made.fs, "OperationFailed")
        ELSE IF ~written.ok THEN Ret(written.fs, "OperationFailed")
        ELSE IF ~IsRelativeTo(abs_path, sec.allowed_root)
        THEN Ret(written.fs, "OperationFailed")                 \* relative_to raises
        ELSE Ret(written.fs, "Created")

\* delete_file
delete_file(f, sec, path) ==
    LET d == is_path_allowed(f, sec, path)
        abs_path == Resolve(f, path)
    IN  IF ~d.allowed THEN Deny(f, "Denied", d)
        ELSE IF ~PathExists(f, abs_path) THEN Ret(f, "NotFound")
        ELSE IF ~IsFile(f, abs_path) THEN Ret(f, "NotAFile")
        ELSE Ret(Unlink(f, abs_path), "Deleted")

\* variant: with replace_all the presence of old_string is not checked
edit_file_replace_all_unchecked(f, sec, file_path, old_string, new_string, replace_all) ==
    LET d == is_path_allowed(f, sec, file_path)
        abs_path == Resolve(f, file_path)
        content == DecodeText(f[Locate(f, abs_path)].data)
        count == PyCount(content, old_string)
        new_content == IF replace_all
                       THEN PyReplace(content, old_string, new_string, -1)
                       ELSE PyReplace(content, old_string, new_string, 1)
        replacements == IF replace_all THEN PyCount(content, old_string) ELSE 1
        written == OpenWrite(f, abs_path, new_content)
    IN  IF ~d.allowed THEN Deny(f, "Denied", d)
        ELSE IF ~PathExists(f, abs_path) THEN Ret(f, "NotFound")
        ELSE IF ~IsFile(f, abs_path) THEN Ret(f, "NotAFile")
        ELSE IF ~check_file_size(f, sec, abs_path) THEN Ret(f, "TooLarge")
        ELSE IF ~Decodable(f[Locate(f, abs_path)].data) THEN Ret(f, "DecodeError")
        ELSE IF ~replace_all /\ ~Contains(content, old_string) THEN Ret(f, "NotFoundInFile")
        ELSE IF ~replace_all /\ count > 1
        THEN [Ret(f, "Ambiguous") EXCEPT !.count = count]
        ELSE IF ~written.ok THEN Ret(written.fs, "OperationFailed")
        ELSE IF ~IsRelativeTo(abs_path, sec.allowed_root)
        THEN Ret(written.fs, "OperationFailed")                 \* relative_to raises
        ELSE [Ret(written.fs, "Replaced") EXCEPT !.count = replacements]

\* variant: the file is decoded before its size is checked
edit_file_decode_first(f, sec, file_path, old_string, new_string, replace_all) ==
    LET d == is_path_allowed(f, sec, file_path)
        abs_path == Resolve(f, file_path)
        content == DecodeText(f[Locate(f, abs_path)].data)
        count == PyCount(content, old_string)
        new_content == IF replace_all
                       THEN PyReplace(content, old_string, new_string, -1)
                       ELSE PyReplace(content, old_string, new_string, 1)
        replacements == IF replace_all THEN PyCount(content, old_string) ELSE 1
        written == OpenWrite(f, abs_path, new_content)
    IN  IF ~d.allowed THEN Deny(f, "Denied", d)
        ELSE IF ~PathExists(f, abs_path) THEN Ret(f, "NotFound")
        ELSE IF ~IsFile(f, abs_path) THEN Ret(f, "NotAFile")
        ELSE IF ~Decodable(f[Locate(f, abs_path)].data) THEN Ret(f, "DecodeError")
        ELSE IF ~check_file_size(f, sec, abs_path) THEN Ret(f, "TooLarge")
        ELSE IF ~Contains(content, old_string) THEN Ret(f, "NotFoundInFile")
        ELSE IF ~replace_all /\ count > 1
        THEN [Ret(f, "Ambiguous") EXCEPT !.count = count]
        ELSE IF ~written.ok THEN Ret(written.fs, "OperationFailed")
        ELSE IF ~IsRelativeTo(abs_path, sec.allowed_root)
        THEN Ret(written.fs, "OperationFailed")
        ELSE [Ret(written.fs, "Replaced") EXCEPT !.count = replacements]

\* edit_file
edit_file(f, sec, file_path, old_string, new_string, replace_all) ==
    LET d == is_path_allowed(f, sec, file_path)
        abs_path == Resolve(f, file_path)
        content == DecodeText(f[Locate(f, abs_path)].data)
        count == PyCount(content, old_string)
        new_content == IF replace_all
                       THEN PyReplace(content, old_string, new_string, -1)
                       ELSE PyReplace(content, old_string, new_string, 1)
        replacements == IF replace_all THEN PyCount(content, old_string) ELSE 1
        written == OpenWrite(f, abs_path, new_content)
    IN  IF ~d.allowed THEN Deny(f, "Denied", d)
        ELSE IF ~PathExists(f, abs_path) THEN Ret(f, "NotFound")
        ELSE IF ~IsFile(f, abs_path) THEN Ret(f, "NotAFile")
        ELSE IF ~check_file_size(f, sec, abs_path) THEN Ret(f, "TooLarge")
        ELSE IF ~Decodable(f[Locate(f, abs_path)].data) THEN Ret(f, "DecodeError")
        ELSE IF ~Contains(content, old_string) THEN Ret(f, "NotFoundInFile")
        ELSE IF ~replace_all /\ count > 1
        THEN [Ret(f, "Ambiguous") EXCEPT !.count = count]
        ELSE IF ~written.ok THEN Ret(written.fs, "OperationFailed")
        ELSE IF ~IsRelativeTo(abs_path, sec.allowed_root)
        THEN Ret(written.fs, "OperationFailed")                 \* relative_to raises
        ELSE [Ret(written.fs, "Replaced") EXCEPT !.count = replacements]

\* list_directory.  The returned text names the directories and then the
\* files, each group sorted by name; the model keeps the entries as a set.
list_directory(f, sec, path) ==
    LET d == is_path_allowed(f, sec, path)
        abs_path == Resolve(f, path)
        at == Locate(f, abs_path)
        items == {q \in DOMAIN f : Len(q) = Len(at) + 1 /\ StartsWith(q, at)}
        listed == {[name |-> Name(q), dir |-> IsDir(f, q),
                    size |-> IF IsFile(f, q) THEN GetSize(f[Locate(f, q)].data) ELSE 0] :
                   q \in {i \in items : IsFile(f, i) \/ IsDir(f, i)}}
    IN  IF ~d.allowed THEN Deny(f, "Denied", d)
        ELSE IF ~PathExists(f, abs_path) THEN Ret(f, "NotFound")
        ELSE IF ~IsDir(f, abs_path) THEN Ret(f, "NotADirectory")
        ELSE IF ~IsRelativeTo(abs_path, sec.allowed_root)
        THEN Ret(f, "OperationFailed")                          \* relative_to raises
        ELSE [Ret(f, "Listed") EXCEPT !.entries = listed]

\* create_directory
create_directory(f, sec, path) ==
    LET d == is_path_allowed(f, sec, path)
        abs_path == Resolve(f, path)
        made == Mkdir(f, abs_path, FALSE)
    IN  IF ~d.allowed THEN Deny(f, "Denied", d)
        ELSE IF PathExists(f, abs_path) THEN Ret(f, "AlreadyExists")
        ELSE IF ~made.ok THEN Ret(made.fs, "OperationFailed")
        ELSE IF ~IsRelativeTo(abs_path, sec.allowed_root)
        THEN Ret(made.fs, "OperationFailed")                    \* relative_to raises
        ELSE Ret(made.fs, "Created")

\* variant: the destination is not tested for existence; rename(2) replaces
\* what the destination names
move_file_overwrite(f, sec, source, destination) ==
    LET src == is_path_allowed(f, sec, source)
        dst == is_path_allowed(f, sec, destination)
        src_path == Resolve(f, source)
        dst_path == Resolve(f, destination)
        made == Mkdir(f, Parent(dst_path), TRUE)
        cleared == [q \in {x \in DOMAIN made.fs : x = src_path \/ ~StartsWith(x, dst_path)}
                       |-> made.fs[q]]
        renamed == Rename(cleared, src_path, dst_path)
    IN  IF ~src.allowed THEN Deny(f, "SourceDenied", src)
        ELSE IF ~dst.allowed THEN Deny(f, "DestinationDenied", dst)
        ELSE IF ~PathExists(f, src_path) THEN Ret(f, "SourceNotFound")
        ELSE IF ~made.ok THEN Ret(made.fs, "OperationFailed")
        ELSE IF ~renamed.ok THEN Ret(renamed.fs, "OperationFailed")
        ELSE Ret(renamed.fs, "Moved")

\* variant: the source is tested for existence before the policy is asked
\* about the destination
move_file_exists_first(f, sec, source, destination) ==
    LET src == is_path_allowed(f, sec, source)
        dst == is_path_allowed(f, sec, destination)
        src_path == Resolve(f, source)
        dst_path == Resolve(f, destination)
        made == Mkdir(f, Parent(dst_path), TRUE)
        renamed == Rename(made.fs, src_path, dst_path)
    IN  IF ~src.allowed THEN Deny(f, "SourceDenied", src)
        ELSE IF ~PathExists(f, src_path) THEN Ret(f, "SourceNotFound")
        ELSE IF ~dst.allowed THEN Deny(f, "DestinationDenied", dst)
        ELSE IF PathExists(f, dst_path) THEN Ret(f, "DestinationExists")
        ELSE IF ~made.ok THEN Ret(made.fs, "OperationFailed")
        ELSE IF ~renamed.ok THEN Ret(renamed.fs, "OperationFailed")
        ELSE Ret(renamed.fs, "Moved")

\* move_file
move_file(f, sec, source, destination) ==
    LET src == is_path_allowed(f, sec, source)
        dst == is_path_allowed(f, sec, destination)
        src_path == Resolve(f, source)
        dst_path == Resolve(f, destination)
        made == Mkdir(f, Parent(dst_path), TRUE)
        renamed == Rename(made.fs, src_path, dst_path)
    IN  IF ~src.allowed THEN Deny(f, "SourceDenied", src)
        ELSE IF ~dst.allowed THEN Deny(f, "DestinationDenied", dst)
        ELSE IF ~PathExists(f, src_path) THEN Ret(f, "SourceNotFound")
        ELSE IF PathExists(f, dst_path) THEN Ret(f, "DestinationExists")
        ELSE IF ~made.ok THEN Ret(made.fs, "OperationFailed")
        ELSE IF ~renamed.ok THEN Ret(renamed.fs, "OperationFailed")
        ELSE Ret(renamed.fs, "Moved")


\* fnmatch of one name against a glob pattern; "*" matches any run of tokens
RECURSIVE FnMatch(_, _)
FnMatch(name, pat) ==
    IF pat = <<>> THEN name = <<>>
    ELSE IF Head(pat) = "*"
    THEN \E k \in 0..Len(name) : FnMatch(SubSeq(name, k + 1, Len(name)), Tail(pat))
    ELSE name # <<>> /\ Head(name) = Head(pat) /\ FnMatch(Tail(name), Tail(pat))

\* Path.rglob(file_pattern): every entry below the directory whose name
\* matches; directories are descended into, symlinks to directories are not
RGlob(f, search_path, file_pattern) ==
    LET at == Locate(f, search_path)
    IN  {search_path \o SubSeq(q, Len(at) + 1, Len(q)) :
            q \in {x \in DOMAIN f : Len(x) > Len(at) /\ StartsWith(x, at)
                                      /\ IsDir(f, search_path) /\ FnMatch(Name(x), file_pattern)}}

\* file.readlines(): the lines of the text, each with its line feed
RECURSIVE ReadLines(_)
ReadLines(content) ==
    LET i == PyFind(content, <<LF>>, 1)
    IN  IF content = <<>> THEN <<>>
        ELSE IF i = 0 THEN <<content>>
        ELSE <<SubSeq(content, 1, i)>> \o ReadLines(SubSeq(content, i + 1, Len(content)))

IsSpace(ch) == ch \in {LF, CR, " "}

\* str.strip
RECURSIVE Strip(_)
Strip(line) ==
    IF line = <<>> THEN line
    ELSE IF IsSpace(Head(line)) THEN Strip(Tail(line))
    ELSE IF IsSpace(Last(line)) THEN Strip(Front(line))
    ELSE line

\* variant: a discovered file is read without asking the policy
FileMatches_unchecked(f, sec, search_term, search_path, file_path) ==
    LET data == f[Locate(f, file_path)].data
        lines == ReadLines(DecodeText(data))
        hits == {i \in 1..Len(lines) : Contains(Lower(lines[i]), Lower(search_term))}
        entry(i) == [path |-> RelativeTo(file_path, search_path), line |-> i,
                     text |-> Strip(lines[i])]
        nth(k) == CHOOSE i \in hits : Cardinality({j \in hits : j < i}) = k - 1
    IN  IF ~IsFile(f, file_path) THEN <<>>
        ELSE IF ~Decodable(data) THEN <<>>
        ELSE [k \in 1..Cardinality(hits) |-> entry(nth(k))]

\* the result entries one discovered file contributes to a search
FileMatches(f, sec, search_term, search_path, file_path) ==
    LET data == f[Locate(f, file_path)].data
        lines == ReadLines(DecodeText(data))
        hits == {i \in 1..Len(lines) : Contains(Lower(lines[i]), Lower(search_term))}
        entry(i) == [path |-> RelativeTo(file_path, search_path), line |-> i,
                     text |-> Strip(lines[i])]
        \* the matching lines in line order
        nth(k) == CHOOSE i \in hits : Cardinality({j \in hits : j < i}) = k - 1
    IN  IF ~is_path_allowed(f, sec, file_path).allowed THEN <<>>
        ELSE IF ~IsFile(f, file_path) THEN <<>>
        ELSE IF ~Decodable(data) THEN <<>>
        ELSE [k \in 1..Cardinality(hits) |-> entry(nth(k))]

RECURSIVE CollectMatches(_, _, _, _, _)
CollectMatches(f, sec, search_term, search_path, found) ==
    IF found = <<>> THEN <<>>
    ELSE FileMatches(f, sec, search_term, search_path, Head(found))
         \o CollectMatches(f, sec, search_term, search_path, Tail(found))

\* the number of entries a search returns: 50 in the source, scaled to the
\* number of lines the model's files hold
search_limit == 2

\* variant: the list is cut one entry late
search_in_files_cut_late(f, sec, search_term, directory, file_pattern, found) ==
    LET d == is_path_allowed(f, sec, directory)
        search_path == Resolve(f, directory)
        results == CollectMatches(f, sec, search_term, search_path, found)
        count == Len(results)
    IN  IF ~d.allowed THEN Deny(f, "Denied", d)
        ELSE IF results = <<>> THEN Ret(f, "NoMatches")
        ELSE [Ret(f, "Matches") EXCEPT
                 !.entries = SubSeq(results, 1, IF count > search_limit + 1
                                                THEN search_limit + 1 ELSE count),
                 !.omitted = IF count > search_limit THEN count - search_limit ELSE 0]

\* search_in_files; found is the order in which rglob yields the entries
search_in_files(f, sec, search_term, directory, file_pattern, found) ==
    LET d == is_path_allowed(f, sec, directory)
        search_path == Resolve(f, directory)
        results == CollectMatches(f, sec, search_term, search_path, found)
        count == Len(results)
    IN  IF ~d.allowed THEN Deny(f, "Denied", d)
        ELSE IF results = <<>> THEN Ret(f, "NoMatches")
        ELSE [Ret(f, "Matches") EXCEPT
                 !.entries = SubSeq(results, 1, IF count > search_limit THEN search_limit ELSE count),
                 !.omitted = IF count > search_limit THEN count - search_limit ELSE 0]

----------------------------------------------------------------------------
(* The initial filesystem *)

N_TXT == <<"n", ".", "txt">>
P_EXE == <<"p", ".", "exe">>
ETC == <<SLASH, <<"etc">>>>

MkFS(pairs) == [p \in {x[1] : x \in pairs} |-> (CHOOSE x \in pairs : x[1] = p)[2]]

\* /ws is the sandbox root; /etc lies outside it; /ws/out is a symlink that
\* leaves the sandbox, /lnk a symlink to the sandbox root, /ws/loop a symlink
\* to itself
BaseFS(a_data) ==
    MkFS({ <<<<SLASH>>, Dir>>,
           <<WS, Dir>>,
           <<Append(WS, A_TXT), File(a_data)>>,
           <<Append(WS, B_EXE), File(<<"x">>)>>,
           <<Append(WS, K_KEY), File(<<"x">>)>>,
           <<Append(WS, <<"big", ".", "txt">>), File(<<"x", "x", "x", "x">>)>>,
           <<Append(WS, <<"bin", ".", "txt">>), File(<<BAD>>)>>,
           <<Append(WS, <<"d">>), Dir>>,
           <<Append(Append(WS, <<"d">>), K_KEY), File(<<"x">>)>>,
           <<Append(WS, P_EXE), Dir>>,
           <<Append(WS, DOTGIT), Dir>>,
           <<Append(Append(WS, DOTGIT), A_TXT), File(<<"x">>)>>,
           <<Append(WS, <<"out">>), Link(ETC)>>,
           <<Append(WS, <<"loop">>), Link(Append(WS, <<"loop">>))>>,
           <<ETC, Dir>>,
           <<Append(ETC, A_TXT), File(<<"x">>)>>,
           <<<<SLASH, <<"lnk">>>>, Link(WS)>> })

----------------------------------------------------------------------------
(* The state machine: one action per tool call *)

NoCall ==
    [op |-> "none", path |-> <<>>, dst |-> <<>>, content |-> <<>>,
     old |-> <<>>, new |-> <<>>, replace_all |-> FALSE, term |-> <<>>, pattern |-> <<>>,
     config |-> NoDocument,
     out |-> "", reason |-> "", detail |-> <<>>, count |-> 0,
     text |-> <<>>, entries |-> <<>>, omitted |-> 0]

\* no call is in progress
NoCalls == <<>>

\* a call returns: the filesystem is what the tool left, the outcome is recorded
Return(call, r) ==
    /\ fs' = r.fs
    /\ pre' = fs
    /\ last' = [call EXCEPT !.out = r.out, !.reason = r.reason, !.detail = r.detail,
                            !.count = r.count, !.text = r.text, !.entries = r.entries,
                            !.omitted = r.omitted]
    /\ steps' = steps + 1
    /\ UNCHANGED <<security, calls>>

Evaluate(path) ==
    LET d == is_path_allowed(fs, security, path)
    IN  Return([NoCall EXCEPT !.op = "evaluate", !.path = path],
               Deny(fs, IF d.allowed THEN "Allowed" ELSE "Denied", d))

ReadFile(path) ==
    Return([NoCall EXCEPT !.op = "read", !.path = path], read_file(fs, security, path))

WriteFile(path, content) ==
    Return([NoCall EXCEPT !.op = "write", !.path = path, !.content = content],
           write_file(fs, security, path, content))

CreateFile(path, content) ==
    Return([NoCall EXCEPT !.op = "create", !.path = path, !.content = content],
           create_file(fs, security, path, content))

DeleteFile(path) ==
    Return([NoCall EXCEPT !.op = "delete", !.path = path], delete_file(fs, security, path))

EditFile(file_path, old_string, new_string, replace_all) ==
    Return([NoCall EXCEPT !.op = "edit", !.path = file_path, !.old = old_string,
                          !.new = new_string, !.replace_all = replace_all],
           edit_file(fs, security, file_path, old_string, new_string, replace_all))

ListDirectory(path) ==
    Return([NoCall EXCEPT !.op = "list", !.path = path], list_directory(fs, security, path))

CreateDirectory(path) ==
    Return([NoCall EXCEPT !.op = "createDirectory", !.path = path],
           create_directory(fs, security, path))

MoveFile(source, destination) ==
    Return([NoCall EXCEPT !.op = "move", !.path = source, !.dst = destination],
           move_file(fs, security, source, destination))

\* os.scandir yields the entries of a directory in an order the filesystem
\* chooses; the model takes one enumeration of the set and its reverse
RECURSIVE Enumerate(_)
Enumerate(S) ==
    IF S = {} THEN <<>>
    ELSE LET x == CHOOSE y \in S : TRUE IN <<x>> \o Enumerate(S \ {x})

Reverse(s) == [i \in 1..Len(s) |-> s[Len(s) + 1 - i]]

Orders(S) == {Enumerate(S), Reverse(Enumerate(S))}

SearchInFiles(search_term, directory, file_pattern) ==
    \E found \in Orders(RGlob(fs, Resolve(fs, directory), file_pattern)) :
        Return([NoCall EXCEPT !.op = "search", !.path = directory, !.term = search_term,
                              !.pattern = file_pattern],
               search_in_files(fs, security, search_term, directory, file_pattern, found))

\* SecurityConfig.__init__ calls load_config on the document at config_path
LoadConfig(doc) ==
    LET r == load_config(security, doc)
    IN  /\ security' = r.sec
        /\ last' = [NoCall EXCEPT !.op = "load_config", !.config = doc, !.out = r.out]
        /\ pre' = fs
        /\ steps' = steps + 1
        /\ UNCHANGED <<fs, calls>>

----------------------------------------------------------------------------
(* Spec: every tool, called with the paths and texts below *)

OpPaths ==
    { <<A_TXT>>,                                        \* a file of the sandbox, relative
      Append(WS, N_TXT),                                \* a new file
      <<SLASH, <<"ws">>, <<"d">>, <<"e">>, N_TXT>>,     \* a new file in a new directory
      Append(WS, <<"d">>),                              \* a directory
      WS,                                               \* the root itself
      Append(WS, B_EXE),                                \* a file with an extension not allowed
      <<SLASH, <<"ws">>, DOTGIT, A_TXT>>,               \* below a blocked directory
      <<SLASH, <<"ws">>, DOTDOT, <<"etc">>, A_TXT>>,    \* leaves the root through ".."
      <<SLASH, <<"ws">>, <<"out">>, A_TXT>>,            \* leaves the root through a symlink
      <<SLASH, <<"ws">>, <<"loop">>, DOTDOT, <<"out">>, A_TXT>>,    \* the same, past a symlink loop
      <<SLASH, <<"ws">>, A_TXT, N_TXT>> }               \* below a regular file

OpContents == { <<"x", CR, "x">>, <<"x", "x", "x", "x">> }

MoveSources ==
    { <<A_TXT>>, Append(WS, <<"d">>), WS, <<SLASH, <<"ws">>, DOTGIT, A_TXT>>,
      <<SLASH, <<"ws">>, DOTDOT, <<"etc">>, A_TXT>> }

MoveDests ==
    { Append(WS, N_TXT), <<SLASH, <<"ws">>, <<"d">>, <<"e">>, N_TXT>>, Append(WS, <<"d">>),
      Append(WS, B_EXE), <<SLASH, <<"ws">>, <<"out">>, A_TXT>> }

\* the spellings of allowed_root that Spec starts from
OpRoots == { WS, <<SLASH, <<"lnk">>>> }

TXT_GLOB == <<"*", ".", "txt">>

Init ==
    /\ fs = BaseFS(<<"x", "x">>)
    /\ security \in {SecurityConfig(root) : root \in OpRoots}
    /\ last = NoCall
    /\ pre = fs
    /\ steps = 0
    /\ calls = NoCalls

Next ==
    /\ steps < MaxOps
    /\ \/ \E p \in OpPaths : ReadFile(p)
       \/ \E p \in OpPaths, c \in OpContents : WriteFile(p, c)
       \/ \E p \in OpPaths, c \in OpContents : CreateFile(p, c)
       \/ \E p \in OpPaths : DeleteFile(p)
       \/ \E p \in OpPaths, all \in BOOLEAN : EditFile(p, <<"x">>, <<"y">>, all)
       \/ \E p \in OpPaths : ListDirectory(p)
       \/ \E p \in OpPaths : CreateDirectory(p)
       \/ \E p \in MoveSources, q \in MoveDests : MoveFile(p, q)
       \/ \E p \in {WS, ETC} : SearchInFiles(<<"X">>, p, TXT_GLOB)

Spec == Init /\ [][Next]_vars

----------------------------------------------------------------------------
(* SpecPolicy: is_path_allowed applied once to every path of a bounded set *)

PolicyNames ==
    { <<"ws">>, <<"etc">>, <<"lnk">>, <<"d">>, <<"out">>, <<"loop">>, <<"g">>, <<"f">>, DOTDOT, DOTGIT,
      A_TXT, R_TXT, B_EXE, P_EXE, K_KEY, <<"K", ".", "KEY">> }

PolicyPaths ==
    LET rel == SeqsUpTo(PolicyNames, MaxDepth)
    IN  rel \cup {<<SLASH>> \o p : p \in rel}

\* the initial filesystem with /ws/g, a symlink to the blocked directory /ws/.git
PolicyFS ==
    LET base == BaseFS(<<"x", "x">>)
        g == Append(WS, <<"g">>)
    IN  [q \in DOMAIN base \cup {g} |-> IF q = g THEN Link(Append(WS, DOTGIT)) ELSE base[q]]

InitPolicy ==
    /\ fs = PolicyFS
    /\ security \in {SecurityConfig(root) : root \in RootSpellings}
    /\ last = NoCall
    /\ pre = fs
    /\ steps = 0
    /\ calls = NoCalls

NextPolicy == steps = 0 /\ \E p \in PolicyPaths : Evaluate(p)

SpecPolicy == InitPolicy /\ [][NextPolicy]_vars

----------------------------------------------------------------------------
(* SpecEdit: edit_file applied once to a file of every content of a bounded set *)

EditChars == {"x", "y", CR}

EditTexts == SeqsUpTo(EditChars, MaxLen)

EditArgs == SeqsUpTo(EditChars \cup {LF}, 2)

InitEdit ==
    /\ fs \in {BaseFS(data) : data \in EditTexts}
    /\ security \in {SecurityConfig(root) : root \in RootSpellings}
    /\ last = NoCall
    /\ pre = fs
    /\ steps = 0
    /\ calls = NoCalls

NextEdit ==
    /\ steps = 0
    /\ \E o \in EditArgs, n \in EditArgs, all \in BOOLEAN : EditFile(<<A_TXT>>, o, n, all)

SpecEdit == InitEdit /\ [][NextEdit]_vars

----------------------------------------------------------------------------
(* SpecSearch: search_in_files applied once to a directory tree whose file   *)
(* a.txt holds every text of a bounded set                                   *)

S_TXT == <<"s", ".", "txt">>

\* the initial filesystem with /ws/s.txt, a symlink to a file outside the root
SearchFS(data) ==
    LET base == BaseFS(data)
        s_txt == Append(WS, S_TXT)
    IN  [q \in DOMAIN base \cup {s_txt} |->
            IF q = s_txt THEN Link(Append(ETC, A_TXT)) ELSE base[q]]

SearchChars == {"x", "X", "y", LF}

SearchTexts == SeqsUpTo(SearchChars, MaxLen)

SearchTerms == { <<"x">>, <<"X">>, <<"y">> }

SearchDirs ==
    { WS, <<<<"d">>>>, <<A_TXT>>, <<SLASH, <<"lnk">>>>, Append(WS, DOTGIT), ETC }

SearchPatterns == { TXT_GLOB, <<"*">> }

InitSearch ==
    /\ fs \in {SearchFS(data) : data \in SearchTexts}
    /\ security \in {SecurityConfig(root) : root \in OpRoots}
    /\ last = NoCall
    /\ pre = fs
    /\ steps = 0
    /\ calls = NoCalls

NextSearch ==
    /\ steps = 0
    /\ \E t \in SearchTerms, d \in SearchDirs, g \in SearchPatterns : SearchInFiles(t, d, g)

SpecSearch == InitSearch /\ [][NextSearch]_vars

----------------------------------------------------------------------------
(* SpecConfig: the construction of the SecurityConfig singleton, from the    *)
(* defaults of __init__ through load_config, for every document of a         *)
(* bounded set                                                               *)

\* allowed_root: absent, null, "", [] (a list where a string is expected) or
\* a path
ConfigRoots ==
    { JMissing, JNull, JStr(<<>>), JList(<<>>), JStr(WS), JStr(<<SLASH, <<"lnk">>>>), JStr(ETC) }

\* additional_blocked: absent, a list of patterns, or a value of another type
ConfigBlocked ==
    { JMissing, JList(<<>>), JList(<< <<"tmp">> >>), JList(<< <<"tmp">>, <<"*", ".", "log">> >>),
      JStr(<<"t", "m">>), JNum, JNull }

\* additional_extensions: absent, a list of extensions, or a value of another type
ConfigExtensions ==
    { JMissing, JList(<<>>), JList(<< <<".", "exe">> >>), JList(<< <<".", "exe">>, <<".", "log">> >>),
      JStr(<<".", "c">>), JNum, JNull }

ConfigDocuments ==
    { NoDocument,
      Document("invalid", JMissing, JMissing, JMissing),
      Document("array", JMissing, JMissing, JMissing) }
    \cup { Document("object", r, b, e) :
             r \in ConfigRoots, b \in ConfigBlocked, e \in ConfigExtensions }

InitConfig ==
    /\ fs = BaseFS(<<"x", "x">>)
    /\ security = SecurityConfig(None)
    /\ last = NoCall
    /\ pre = fs
    /\ steps = 0
    /\ calls = NoCalls

NextConfig == steps = 0 /\ \E doc \in ConfigDocuments : LoadConfig(doc)

SpecConfig == InitConfig /\ [][NextConfig]_vars

----------------------------------------------------------------------------
(* SpecRepeat: edit_file applied to a file of every content of a bounded   *)
(* set, and then applied again with the same arguments                     *)

RepeatChars == {"x", "y"}

RepeatTexts == SeqsUpTo(RepeatChars, MaxLen)

RepeatArgs == SeqsUpTo(RepeatChars, 2) \ {<<>>}

InitRepeat ==
    /\ fs \in {BaseFS(data) : data \in RepeatTexts}
    /\ security = SecurityConfig(WS)
    /\ last = NoCall
    /\ pre = fs
    /\ steps = 0
    /\ calls = NoCalls

EditOnce ==
    /\ steps = 0
    /\ \E o \in RepeatArgs, n \in RepeatArgs, all \in BOOLEAN : EditFile(<<A_TXT>>, o, n, all)

EditAgain ==
    /\ steps = 1
    /\ EditFile(last.path, last.old, last.new, last.replace_all)

NextRepeat == EditOnce \/ EditAgain

SpecRepeat == InitRepeat /\ [][NextRepeat]_vars

----------------------------------------------------------------------------
(* SpecLoad: read_file and edit_file applied once, where a.txt holds every   *)
(* sequence of a bounded set of bytes: of one and of two bytes a character,  *)
(* valid and invalid UTF-8, below, at and above max_file_size                *)

LoadChars == {"x", "E_ACUTE", BAD}

LoadTexts == SeqsUpTo(LoadChars, MaxLen)

LoadPaths ==
    { <<A_TXT>>,                \* the file of every content
      Append(WS, N_TXT),        \* a path that does not exist
      Append(WS, <<"d">>),      \* a directory
      Append(WS, B_EXE) }       \* a file the policy denies

InitLoad ==
    /\ fs \in {BaseFS(data) : data \in LoadTexts}
    /\ security \in {SecurityConfig(root) : root \in OpRoots}
    /\ last = NoCall
    /\ pre = fs
    /\ steps = 0
    /\ calls = NoCalls

NextLoad ==
    /\ steps = 0
    /\ \/ \E p \in LoadPaths : ReadFile(p)
       \/ \E p \in LoadPaths, o \in {<<"x">>, <<"y">>}, all \in BOOLEAN :
              EditFile(p, o, <<"z">>, all)

SpecLoad == InitLoad /\ [][NextLoad]_vars

----------------------------------------------------------------------------
(* SpecRace: two clients call create_file and the calls run side by side.   *)
(* A call is taken step by step, one step per filesystem call it makes:     *)
(* the checks up to abs_path.exists(), parent.mkdir, open(abs_path, 'w'),   *)
(* and the end of the with block, where the buffered text is written at     *)
(* the start of the file and the outcome is returned.                       *)

Callers == {1, 2}

RaceTexts == {t \in SeqsUpTo({"x", "y"}, MaxLen) : \A i, j \in 1..Len(t) : t[i] = t[j]}

RacePaths ==
    { Append(WS, N_TXT),                                \* a new file
      <<SLASH, <<"ws">>, <<"d">>, <<"e">>, N_TXT>>,     \* a new file in a new directory
      <<A_TXT>> }                                       \* a file that exists

Idle ==
    [pc |-> "idle", path |-> <<>>, content |-> <<>>, abs_path |-> <<>>, out |-> "",
     checked |-> 0, opened |-> 0, closed |-> 0]

\* write(2) at offset 0 of a file that holds data
WriteAt0(data, bytes) == bytes \o SubSeq(data, Len(bytes) + 1, Len(data))

Step(c, call) ==
    /\ calls' = [calls EXCEPT ![c] = call]
    /\ steps' = steps + 1
    /\ UNCHANGED <<security, last, pre>>

Finish(c, out) == Step(c, [calls[c] EXCEPT !.pc = "done", !.out = out])

\* create_file from its entry to abs_path.exists()
CreateCheck(c, path, content) ==
    LET d == is_path_allowed(fs, security, path)
        abs_path == Resolve(fs, path)
        call == [calls[c] EXCEPT !.path = path, !.content = content, !.checked = steps + 1]
    IN  /\ calls[c].pc = "idle"
        /\ UNCHANGED fs
        /\ IF ~d.allowed THEN Step(c, [call EXCEPT !.pc = "done", !.out = "Denied"])
           ELSE IF PathExists(fs, abs_path)
           THEN Step(c, [call EXCEPT !.pc = "done", !.out = "AlreadyExists"])
           ELSE Step(c, [call EXCEPT !.pc = "checked", !.abs_path = abs_path])

\* abs_path.parent.mkdir(parents=True, exist_ok=True)
CreateMkdir(c) ==
    LET made == Mkdir(fs, Parent(calls[c].abs_path), TRUE)
    IN  /\ calls[c].pc = "checked"
        /\ fs' = made.fs
        /\ IF made.ok THEN Step(c, [calls[c] EXCEPT !.pc = "made"])
           ELSE Finish(c, "OperationFailed")

\* open(abs_path, 'w', encoding='utf-8'): the file is created or cut to nothing
CreateOpen(c) ==
    LET opened == OpenWrite(fs, calls[c].abs_path, <<>>)
    IN  /\ calls[c].pc = "made"
        /\ fs' = opened.fs
        /\ IF opened.ok THEN Step(c, [calls[c] EXCEPT !.pc = "open", !.opened = steps + 1])
           ELSE Finish(c, "OperationFailed")

\* the with block ends: f.write(content) leaves the buffer, the file is
\* closed, and the call returns
CreateClose(c) ==
    LET at == Locate(fs, calls[c].abs_path)
        data == WriteAt0(fs[at].data, EncodeText(calls[c].content))
        call == [calls[c] EXCEPT !.closed = steps + 1]
    IN  /\ calls[c].pc = "open"
        /\ fs' = [fs EXCEPT ![at] = File(data)]
        /\ IF IsRelativeTo(calls[c].abs_path, security.allowed_root)
           THEN Step(c, [call EXCEPT !.pc = "done", !.out = "Created"])
           ELSE Step(c, [call EXCEPT !.pc = "done", !.out = "OperationFailed"])

InitRace ==
    /\ fs = BaseFS(<<"x", "x">>)
    /\ security \in {SecurityConfig(root) : root \in OpRoots}
    /\ last = NoCall
    /\ pre = fs
    /\ steps = 0
    /\ calls = [c \in Callers |-> Idle]

NextRace ==
    \E c \in Callers :
        \/ \E p \in RacePaths, t \in RaceTexts : CreateCheck(c, p, t)
        \/ CreateMkdir(c)
        \/ CreateOpen(c)
        \/ CreateClose(c)

SpecRace == InitRace /\ [][NextRace]_vars

----------------------------------------------------------------------------
(* Properties of the path policy *)

InitFS == BaseFS(<<"x", "x">>)

\* the canonical form of the configured root
CanonicalRoot == Resolve(pre, security.allowed_root)

\* the path argument of the last call as Path.resolve() returns it
CanonicalPath == Resolve(pre, last.path)

\* the canonical form of the path argument of the last call: ".." collapsed
\* and every symlink followed
CanonicalForm == Locate(pre, CanonicalPath)

Inside(q) == StartsWith(q, CanonicalRoot)

\* C1: after any sequence of tool calls every path that is not the canonical
\* root or below it names what it named initially: nothing outside the root
\* is created, modified, moved or removed.
C1_OutsideNeverChanges ==
    \A q \in DOMAIN fs \cup DOMAIN InitFS :
        ~Inside(q) => q \in DOMAIN fs /\ q \in DOMAIN InitFS /\ fs[q] = InitFS[q]

\* C2: evaluate denies every path whose canonical form is not the root or
\* below it, and the reason is the containment reason, also when the path
\* has a blocked segment or an extension that is not allowed.
C2_OutsideDeniedByContainment ==
    (last.op = "evaluate" /\ CanonicalForm # ERR /\ ~Inside(CanonicalForm))
        => last.out = "Denied" /\ last.reason = "Path outside allowed directory"

IsGlob(pattern) == Len(pattern) >= 2 /\ pattern[1] = "*" /\ pattern[2] = "."

\* C3: evaluate denies every path whose canonical form has, at any position,
\* a segment equal to a blocked pattern that is not a glob.
C3_BlockedSegmentDenied ==
    (/\ last.op = "evaluate"
     /\ CanonicalForm # ERR
     /\ \E i \in 2..Len(CanonicalForm), k \in 1..Len(security.blocked_patterns) :
            /\ ~IsGlob(security.blocked_patterns[k])
            /\ CanonicalForm[i] = security.blocked_patterns[k])
        => last.out = "Denied"

\* the extension of the resolved path, in lower case
LowerExtension == Lower(Suffix(CanonicalPath))

\* C4: for a path that resolves inside the root and does not exist or is a
\* regular file,
\* evaluate denies when the extension is not empty and its lower-case form is
\* not in allowed_extensions; a path without extension is never denied by
\* the extension step; the step is skipped for an existing directory.
C4_ExtensionStep ==
    (last.op = "evaluate" /\ CanonicalPath # ERR /\ Inside(CanonicalPath))
        => /\ (/\ Kind(pre, CanonicalPath) \in {"none", "file"}
               /\ LowerExtension # <<>>
               /\ ~InList(LowerExtension, security.allowed_extensions))
                  => last.out = "Denied"
           /\ LowerExtension = <<>> => last.reason # "File extension not allowed"
           /\ Kind(pre, CanonicalPath) = "dir" => last.reason # "File extension not allowed"

\* an existing regular file inside the root, matched by no blocked pattern,
\* was denied for its extension
C4_Witness ==
    /\ last.op = "evaluate"
    /\ Inside(CanonicalPath)
    /\ Kind(pre, CanonicalPath) = "file"
    /\ LowerExtension = <<".", "exe">>
    /\ last.out = "Denied"
    /\ last.reason = "File extension not allowed"

----------------------------------------------------------------------------
(* Properties of write, read and create *)

WriteWrote == last.op = "write" /\ last.out \in {"Created", "Updated"}

\* C5: a write(p, c) followed directly by read(p) returns exactly c, for every
\* length of c (also above max_file_size) and every character of c (also
\* carriage return and line feed).  Stated for the writes that report success.
C5_WriteThenRead ==
    [][(WriteWrote /\ last'.op = "read" /\ last'.path = last.path)
          => (last'.out = "Content" /\ last'.text = last.content)]_vars

\* C6 as claimed: create on a path that exists always returns AlreadyExists
\* and changes nothing.
C6_CreateExistingAlwaysAlreadyExists ==
    (last.op = "create" /\ PathExists(pre, CanonicalPath))
        => last.out = "AlreadyExists" /\ fs = pre

\* C6: create on a path that exists (file or directory) writes nothing: it
\* returns AlreadyExists when the policy allows the path and Denied when the
\* policy denies it, and the filesystem is unchanged in both cases.
C6_CreateExistingWritesNothing ==
    (last.op = "create" /\ PathExists(pre, CanonicalPath))
        => /\ last.out = IF is_path_allowed(pre, security, last.path).allowed
                         THEN "AlreadyExists" ELSE "Denied"
           /\ fs = pre

\* create was called on an existing regular file with a content other than
\* the one the file holds, and returned AlreadyExists
C6_Witness ==
    /\ last.op = "create"
    /\ Kind(pre, CanonicalPath) = "file"
    /\ pre[Locate(pre, CanonicalPath)].data # EncodeText(last.content)
    /\ last.out = "AlreadyExists"

----------------------------------------------------------------------------
(* Properties of edit *)

\* the edit call reached the point where the file is loaded as text
EditLoaded ==
    /\ last.op = "edit"
    /\ is_path_allowed(pre, security, last.path).allowed
    /\ IsFile(pre, CanonicalPath)
    /\ GetSize(pre[CanonicalPath].data) <= security.max_file_size
    /\ Decodable(pre[CanonicalPath].data)

\* the text edit loaded
Loaded == DecodeText(pre[CanonicalPath].data)

\* the positions at which sub occurs in s
Occurrences(s, sub) ==
    {i \in 1..(Len(s) - Len(sub) + 1) : \A k \in 1..Len(sub) : s[i + k - 1] = sub[k]}

\* the occurrences taken from left to right that do not overlap: an
\* occurrence is taken unless it overlaps an occurrence taken before it
Taken(s, sub) ==
    CHOOSE T \in SUBSET Occurrences(s, sub) :
        \A i \in Occurrences(s, sub) :
            i \in T <=> ~\E j \in T : j < i /\ i < j + Len(sub)

\* s with the occurrences of T, each of length n, replaced by new
RECURSIVE Rewritten(_, _, _, _, _)
Rewritten(s, T, n, new, i) ==
    IF i > Len(s) THEN <<>>
    ELSE IF i \in T THEN new \o Rewritten(s, T, n, new, i + n)
    ELSE <<s[i]>> \o Rewritten(s, T, n, new, i + 1)

OccurrenceCount == Cardinality(Taken(Loaded, last.old))

\* C7: for a file whose content holds oldText N > 1 times (not overlapping,
\* left to right), edit with replaceAll = false returns Ambiguous reporting N
\* and leaves the content unchanged, and edit with replaceAll = true replaces
\* all N occurrences by newText and reports the count N.
C7_ManyOccurrences ==
    (EditLoaded /\ last.old # <<>> /\ OccurrenceCount > 1)
        => IF last.replace_all
           THEN /\ last.out = "Replaced"
                /\ last.count = OccurrenceCount
                /\ fs[CanonicalPath].data =
                       Rewritten(Loaded, Taken(Loaded, last.old), Len(last.old), last.new, 1)
           ELSE /\ last.out = "Ambiguous"
                /\ last.count = OccurrenceCount
                /\ fs = pre

C9_SingleOccurrence ==
    \A i \in 1..(MaxLen + 2) :
        (EditLoaded /\ ~last.replace_all /\ last.old # <<>> /\ Occurrences(Loaded, last.old) = {i})
            => /\ last.out = "Replaced"
               /\ last.count = 1
               /\ fs[CanonicalPath].data =
                      SubSeq(Loaded, 1, i - 1) \o last.new
                      \o SubSeq(Loaded, i + Len(last.old), Len(Loaded))

\* C10: edit(p, s, s) leaves the content of p byte-identical, whatever the
\* outcome and whatever characters the content holds.
C10_NoOpEdit ==
    (last.op = "edit" /\ last.old = last.new) => fs = pre

----------------------------------------------------------------------------
(* Properties of move *)

\* the canonical forms of the two path arguments of a move
CanonicalSource == Resolve(pre, last.path)

CanonicalDestination == Resolve(pre, last.dst)

\* C11 as claimed: a move whose destination exists always returns
\* DestinationExists and changes nothing.
C11_DestinationExistsAlways ==
    (last.op = "move" /\ PathExists(pre, CanonicalDestination))
        => last.out = "DestinationExists" /\ fs = pre

\* C11: a move whose destination exists changes nothing (no path is renamed,
\* no content is rewritten, no directory is created); it returns
\* DestinationExists when the policy allows both paths and the source exists,
\* and otherwise the outcome of the check that fails before the destination
\* is looked at: SourceDenied, DestinationDenied or SourceNotFound.
C11_DestinationExistsChangesNothing ==
    (last.op = "move" /\ PathExists(pre, CanonicalDestination))
        => /\ fs = pre
           /\ last.out =
                  IF ~is_path_allowed(pre, security, last.path).allowed THEN "SourceDenied"
                  ELSE IF ~is_path_allowed(pre, security, last.dst).allowed
                  THEN "DestinationDenied"
                  ELSE IF ~PathExists(pre, CanonicalSource) THEN "SourceNotFound"
                  ELSE "DestinationExists"

\* a regular file was moved onto another regular file of a different content,
\* and the move returned DestinationExists
C11_Witness ==
    /\ last.op = "move"
    /\ Kind(pre, CanonicalSource) = "file"
    /\ Kind(pre, CanonicalDestination) = "file"
    /\ CanonicalSource # CanonicalDestination
    /\ pre[Locate(pre, CanonicalSource)].data # pre[Locate(pre, CanonicalDestination)].data
    /\ last.out = "DestinationExists"

----------------------------------------------------------------------------
(* Properties of search *)

\* the canonical form of the directory argument of a search
SearchDir == Resolve(pre, last.path)

\* the search reached the directory walk
Searched == last.op = "search" /\ is_path_allowed(pre, security, last.path).allowed

\* the text of a regular file as search reads it
TextOf(q) == DecodeText(pre[Locate(pre, q)].data)

\* the files a search reads: discovered below the directory, allowed by the
\* policy, regular and decodable
SearchedFiles ==
    {q \in RGlob(pre, SearchDir, last.pattern) :
        /\ is_path_allowed(pre, security, q).allowed
        /\ IsFile(pre, q)
        /\ Decodable(pre[Locate(pre, q)].data)}

\* the lines of a file that hold the term, upper and lower case alike
MatchingLinesOf(q) ==
    {i \in 1..Len(ReadLines(TextOf(q))) :
        Occurrences(Lower(ReadLines(TextOf(q))[i]), Lower(last.term)) # {}}

\* every matching line of the search, as <<file, line number>>
MatchingLines == UNION {{<<q, i>> : i \in MatchingLinesOf(q)} : q \in SearchedFiles}

\* the <<file, line number>> an entry of the result stands for
EntryLine(e) == <<SearchDir \o e.path, e.line>>

\* C12: search returns at most search_limit entries (50 in the source); with
\* M matching lines in all, when M exceeds the limit exactly the first
\* search_limit matches in discovery order are returned and the omitted count
\* is M - search_limit, and otherwise all M are returned and no omitted count
\* is reported.
C12_SearchLimit ==
    Searched =>
        LET M == Cardinality(MatchingLines)
            n == Len(last.entries)
            at(k) == EntryLine(last.entries[k])
        IN  /\ n <= search_limit
            /\ IF M > search_limit
               THEN n = search_limit /\ last.omitted = M - search_limit
               ELSE n = M /\ last.omitted = 0
            /\ \A k \in 1..n : at(k) \in MatchingLines
            /\ \A k, l \in 1..n : k < l => at(k) # at(l)
            \* the first ones: a line comes after the earlier matching lines
            \* of its file, and a file comes after all matches of the files
            \* before it
            /\ \A k \in 1..n : \A j \in MatchingLinesOf(at(k)[1]) :
                   j < at(k)[2] => \E h \in 1..(k - 1) : at(h) = <<at(k)[1], j>>
            /\ \A k, l \in 1..n : (k < l /\ at(k)[1] # at(l)[1])
                   => \A j \in MatchingLinesOf(at(k)[1]) :
                          \E h \in 1..(l - 1) : at(h) = <<at(k)[1], j>>

\* a search found more matching lines than the limit, in more than one file,
\* and reported how many it left out
C12_Witness ==
    /\ Searched
    /\ Cardinality(MatchingLines) > search_limit
    /\ Cardinality({m[1] : m \in MatchingLines}) > 1
    /\ Len(last.entries) = search_limit
    /\ last.omitted = Cardinality(MatchingLines) - search_limit
    /\ last.omitted > 0

\* a discovered regular file that the policy denies and that holds the term
DeniedHit(q) ==
    /\ q \in RGlob(pre, SearchDir, last.pattern)
    /\ ~is_path_allowed(pre, security, q).allowed
    /\ IsFile(pre, q)
    /\ Decodable(pre[Locate(pre, q)].data)
    /\ MatchingLinesOf(q) # {}

\* C20: every entry a search returns comes from a file the policy allows at
\* the time of the search; a discovered file that the policy denies gives no
\* entry and no failure (the outcome is Matches or NoMatches), and the files
\* the policy allows are searched all the same: unless the result is cut at
\* the limit, each of their matching lines is returned.
C20_SearchSkipsDenied ==
    Searched =>
        /\ last.out \in {"Matches", "NoMatches"}
        /\ \A k \in 1..Len(last.entries) :
               /\ is_path_allowed(pre, security, SearchDir \o last.entries[k].path).allowed
               /\ EntryLine(last.entries[k]) \in MatchingLines
        /\ last.omitted = 0
               => \A m \in MatchingLines :
                      \E k \in 1..Len(last.entries) : EntryLine(last.entries[k]) = m

\* a search walked over a file outside the root (through a symlink), a file
\* below a blocked directory, a file with a blocked extension and a file with
\* an extension that is not allowed, all holding the term, and returned the
\* matches of the allowed files only
C20_Witness ==
    /\ Searched
    /\ DeniedHit(Append(WS, S_TXT))
    /\ DeniedHit(Append(Append(WS, DOTGIT), A_TXT))
    /\ DeniedHit(Append(WS, K_KEY))
    /\ DeniedHit(Append(WS, B_EXE))
    /\ last.out = "Matches"
    /\ last.omitted = 0
    /\ Len(last.entries) = Cardinality(MatchingLines)

----------------------------------------------------------------------------
(* Properties of the configuration *)

\* C13: when the configuration document is absent or loading it fails (the
\* file is not JSON, its top-level value is not an object, a recognized key
\* holds a value of the wrong type), the configuration after load_config
\* equals the defaults in every field: allowed_root is the current directory,
\* blocked_patterns and allowed_extensions are the default lists.
C13_FailedLoadGivesDefaults ==
    (last.op = "load_config" /\ last.out \in {"NoConfig", "LoadFailed"})
        => security = SecurityConfig(CWD)

\* the configuration with allowed_root replaced by its canonical form
CanonicalConfig == [security EXCEPT !.allowed_root = CanonicalRoot]

\* what the last call returns under a configuration, from the filesystem it
\* started in
Rerun(sec) ==
    CASE last.op = "write" -> write_file(pre, sec, last.path, last.content)
      [] last.op = "create" -> create_file(pre, sec, last.path, last.content)
      [] last.op = "edit" ->
             edit_file(pre, sec, last.path, last.old, last.new, last.replace_all)
      [] last.op = "list" -> list_directory(pre, sec, last.path)
      [] last.op = "createDirectory" -> create_directory(pre, sec, last.path)

\* C14: whatever the spelling of the configured allowed_root (canonical or
\* through a symlink), write, create, edit, list and createDirectory compare
\* paths with the canonical form of the root, in the containment check and in
\* the relative-to-root computation: each call returns and leaves what it
\* returns and leaves when allowed_root is configured in its canonical form.
C14_RootComparedCanonically ==
    last.op \in {"write", "create", "edit", "list", "createDirectory"}
        => LET r == Rerun(CanonicalConfig)
           IN  /\ last.out = r.out
               /\ last.reason = r.reason
               /\ last.count = r.count
               /\ last.entries = r.entries
               /\ fs = r.fs

\* C15: edit is idempotent: a second edit with the arguments of the first
\* leaves the file with the content the first edit left.
C15_EditIdempotent ==
    (steps = 2 /\ last.op = "edit") => fs = pre

----------------------------------------------------------------------------
(* Properties of the order of the checks *)

\* the decision of the policy on a path argument of the last call, taken in
\* the filesystem the call started in
DecisionOn(path) == is_path_allowed(pre, security, path)

OnePathOps ==
    {"read", "write", "create", "delete", "edit", "list", "createDirectory", "search"}

\* C16: every tool asks the policy about each path argument before it tests
\* existence or acts: a denied argument gives Denied with the reason of the
\* policy and an unchanged filesystem, whether the target exists or not; move
\* asks about the source first (SourceDenied) and then about the destination
\* (DestinationDenied), also when the source does not exist.
C16_PolicyBeforeAnythingElse ==
    /\ (last.op \in OnePathOps /\ ~DecisionOn(last.path).allowed)
           => /\ last.out = "Denied"
              /\ last.reason = DecisionOn(last.path).reason
              /\ fs = pre
    /\ (last.op = "move" /\ ~DecisionOn(last.path).allowed)
           => /\ last.out = "SourceDenied"
              /\ last.reason = DecisionOn(last.path).reason
              /\ fs = pre
    /\ (last.op = "move" /\ DecisionOn(last.path).allowed /\ ~DecisionOn(last.dst).allowed)
           => /\ last.out = "DestinationDenied"
              /\ last.reason = DecisionOn(last.dst).reason
              /\ fs = pre

\* a move from an allowed source that does not exist to a denied destination
\* that exists was reported as a destination denial
C16_Witness ==
    /\ last.op = "move"
    /\ DecisionOn(last.path).allowed
    /\ ~PathExists(pre, CanonicalSource)
    /\ ~DecisionOn(last.dst).allowed
    /\ PathExists(pre, CanonicalDestination)
    /\ last.out = "DestinationDenied"
    /\ fs = pre

\* a blocked pattern matches a canonical path: a pattern that starts with
\* "*." when the path string ends with the extension, any other pattern when
\* a segment of the path equals it
Blocks(pattern, canonical) ==
    IF IsGlob(pattern)
    THEN EndsWith(PathStr(canonical), Tail(pattern))
    ELSE \E i \in 2..Len(canonical) : canonical[i] = pattern

\* the indices of the blocked patterns that match the canonical form
BlockingPatterns ==
    {k \in 1..Len(security.blocked_patterns) :
        Blocks(security.blocked_patterns[k], CanonicalForm)}

FirstBlocking == CHOOSE k \in BlockingPatterns : \A j \in BlockingPatterns : k <= j

\* C17: evaluate reports the earliest step that fails, in the order
\* resolution, containment, blocked-pattern scan, extension allow-list, and
\* allows when none fails; the scan tries the patterns in list order on the
\* canonical path and names the first one that matches.
C17_EarliestFailingStep ==
    last.op = "evaluate"
        => IF CanonicalPath = ERR \/ CanonicalRoot = ERR
           THEN last.out = "Denied" /\ last.reason = "Path validation error"
           ELSE IF ~Inside(CanonicalForm)
           THEN last.out = "Denied" /\ last.reason = "Path outside allowed directory"
           ELSE IF BlockingPatterns # {}
           THEN /\ last.out = "Denied"
                /\ last.reason = IF IsGlob(security.blocked_patterns[FirstBlocking])
                                 THEN "Blocked file extension" ELSE "Blocked pattern"
                /\ last.detail = security.blocked_patterns[FirstBlocking]
           ELSE IF /\ Kind(pre, CanonicalForm) \in {"none", "file"}
                   /\ Lower(Suffix(CanonicalForm)) # <<>>
                   /\ ~InList(Lower(Suffix(CanonicalForm)), security.allowed_extensions)
           THEN /\ last.out = "Denied"
                /\ last.reason = "File extension not allowed"
                /\ last.detail = Lower(Suffix(CanonicalForm))
           ELSE last.out = "Allowed" /\ last.reason = "OK"

----------------------------------------------------------------------------
(* Properties of the preconditions of read and edit *)

\* the bytes of the file the last call names
OnDisk == pre[Locate(pre, CanonicalPath)].data

EditFailures ==
    {"Denied", "NotFound", "NotAFile", "TooLarge", "DecodeError", "NotFoundInFile", "Ambiguous"}

\* C18: edit checks policy, existence, regular file, size, decodability,
\* presence of oldText and uniqueness in this order and returns the outcome
\* of the first check that fails; when it returns one of these outcomes the
\* file is not written.
C18_EditCheckOrder ==
    last.op = "edit"
        => /\ IF ~DecisionOn(last.path).allowed THEN last.out = "Denied"
              ELSE IF ~PathExists(pre, CanonicalPath) THEN last.out = "NotFound"
              ELSE IF Kind(pre, CanonicalPath) # "file" THEN last.out = "NotAFile"
              ELSE IF GetSize(OnDisk) > security.max_file_size THEN last.out = "TooLarge"
              ELSE IF \E i \in 1..Len(OnDisk) : OnDisk[i] = BAD THEN last.out = "DecodeError"
              ELSE IF Occurrences(DecodeText(OnDisk), last.old) = {}
              THEN last.out = "NotFoundInFile"
              ELSE IF ~last.replace_all /\ Cardinality(Taken(DecodeText(OnDisk), last.old)) > 1
              THEN last.out = "Ambiguous"
              ELSE last.out \notin EditFailures
           /\ last.out \in EditFailures => fs = pre

\* an edit of a file that is too large, is not valid UTF-8 and does not hold
\* oldText returned TooLarge
C18_Witness ==
    /\ last.op = "edit"
    /\ Kind(pre, CanonicalPath) = "file"
    /\ GetSize(OnDisk) > security.max_file_size
    /\ \E i \in 1..Len(OnDisk) : OnDisk[i] = BAD
    /\ \A i \in 1..Len(OnDisk) : <<OnDisk[i]>> # last.old
    /\ last.out = "TooLarge"
    /\ fs = pre

\* C19: read and edit of a regular file the policy allows return TooLarge,
\* return no content and leave the file as it is when its size on disk, in
\* bytes, is above max_file_size; a file of exactly max_file_size bytes
\* passes the size check.
C19_SizeLimit ==
    (/\ last.op \in {"read", "edit"}
     /\ DecisionOn(last.path).allowed
     /\ Kind(pre, CanonicalPath) = "file")
        => IF GetSize(OnDisk) > security.max_file_size
           THEN last.out = "TooLarge" /\ last.text = <<>> /\ fs = pre
           ELSE last.out # "TooLarge"

\* a file of exactly max_file_size bytes, fewer characters than bytes, was
\* read and its content returned
C19_Witness ==
    /\ last.op = "read"
    /\ Kind(pre, CanonicalPath) = "file"
    /\ GetSize(OnDisk) = security.max_file_size
    /\ Len(OnDisk) < GetSize(OnDisk)
    /\ last.out = "Content"
    /\ last.text = OnDisk

----------------------------------------------------------------------------
(* Properties of calls that run side by side *)

\* both calls are over, were made on the same path, and both had made their
\* existence check before either opened the file
BothCheckedFirst ==
    /\ \A c \in Callers : calls[c].pc = "done" /\ calls[c].opened > 0 /\ calls[c].closed > 0
    /\ calls[1].abs_path = calls[2].abs_path
    /\ \A c, o \in Callers : calls[c].checked < calls[o].opened

\* the caller whose write ended last
LaterWriter == CHOOSE c \in Callers : \A o \in Callers : calls[o].closed <= calls[c].closed

\* C21: when two create calls on the same path that does not exist both make
\* their existence check before either writes, both return Created and the
\* file holds the content of the later writer.
C21_LaterWriterWins ==
    BothCheckedFirst
        => /\ \A c \in Callers : calls[c].out = "Created"
           /\ fs[Locate(fs, calls[1].abs_path)].data = EncodeText(calls[LaterWriter].content)

----------------------------------------------------------------------------
(* Properties of failed calls *)

NonSuccess ==
    {"Denied", "SourceDenied", "DestinationDenied", "NotFound", "SourceNotFound", "NotAFile",
     "NotADirectory", "AlreadyExists", "DestinationExists", "TooLarge", "DecodeError",
     "Ambiguous", "NotFoundInFile", "OperationFailed"}

\* C22: a call that returns an outcome other than success leaves the
\* filesystem as it was before the call: the same files, directories and
\* contents.
C22_FailureChangesNothing ==
    last.out \in NonSuccess => fs = pre

----------------------------------------------------------------------------
(* Properties of edit with an empty oldText *)

\* C23: an edit with an empty oldText that reaches the loaded content is
\* never answered NotFoundInFile; with replaceAll = false it returns Ambiguous
\* reporting L + 1 and changes nothing when the loaded content has length
\* L >= 1, and it returns success with count 1 and leaves newText as the
\* content of the file when the content is empty.
C23_EmptyOldText ==
    (EditLoaded /\ last.old = <<>>)
        => /\ last.out # "NotFoundInFile"
           /\ ~last.replace_all
                => IF Len(Loaded) >= 1
                   THEN /\ last.out = "Ambiguous"
                        /\ last.count = Len(Loaded) + 1
                        /\ fs = pre
                   ELSE /\ last.out = "Replaced"
                        /\ last.count = 1
                        /\ fs[CanonicalPath].data = EncodeText(last.new)

----------------------------------------------------------------------------
(* Properties of blocked files *)

\* the files the run starts with whose canonical path matches a blocked pattern
BlockedFiles ==
    {q \in DOMAIN InitFS :
        /\ InitFS[q].kind = "file"
        /\ Inside(q)
        /\ \E k \in 1..Len(security.blocked_patterns) : Blocks(security.blocked_patterns[k], q)}

\* C24: after any sequence of tool calls every file whose canonical path
\* matches a blocked pattern is where it was and holds what it held, also
\* when a directory above it was the source of a move.
C24_BlockedFilesStay ==
    \A q \in BlockedFiles : q \in DOMAIN fs /\ fs[q] = InitFS[q]

====
